---- MODULE Spec2Model ----
(***************************************************************************)
(* Model of the token verification subsystem of media-service-go           *)
(* (package auth): the JWKS cache client (JWKSClient.GetKeySet) and the    *)
(* token verifier (VerifyToken).                                           *)
(***************************************************************************)
EXTENDS Integers, Sequences, FiniteSets, TLC

(***************************************************************************)
(* Bounds of the model.                                                    *)
(***************************************************************************)
\* The number of goroutines calling VerifyToken concurrently.
NumCallers == 2
\* The clock runs from 0 to MaxTime.
MaxTime == 3
\* The value of JWKSClient.cacheTTL, a configured duration, in clock ticks.
TTL == 2

Callers == 1..NumCallers
\* The value of muPending and muWriter when no caller has asked for, or
\* holds, the lock exclusively.
NoCaller == 0

(***************************************************************************)
(* Key sets (jwk.Set): a sequence of keys, each with a key id, a key type  *)
(* and its key material.  NilSet is Go's nil jwk.Set.                      *)
(***************************************************************************)
Key(kid, kty, mat) == [kid |-> kid, kty |-> kty, mat |-> mat]
NoKey == Key("", "", "")

NilSet == [id |-> "nil", keys |-> <<>>]
KS1 == [id |-> "ks1", keys |-> <<Key("k1", "RSA", "m1")>>]
KS2 == [id |-> "ks2",
        keys |-> <<Key("k2", "RSA", "m2"), Key("k3", "EC", "m3"), Key("k2", "RSA", "m4")>>]
\* The documents the key-set endpoint can serve with status 200.
KeySetDocs == {KS1, KS2}

\* cachedJWKS; present = FALSE is the nil pointer.
NoCache == [present |-> FALSE, set |-> NilSet, expiresAt |-> 0]
Cached(set, exp) == [present |-> TRUE, set |-> set, expiresAt |-> exp]

\* The ways c.httpClient.Do and the handling of its response can end;
\* "canceled": Do returns the error of a context cancelled or past its deadline.
FetchFailures == {"transport", "canceled", "status", "parse"}
FetchOutcomes == {"ok"} \cup FetchFailures

(***************************************************************************)
(* JSON values of a token's header and payload, tagged with their Go type  *)
(* after json.Unmarshal into map[string]interface{}.                       *)
(***************************************************************************)
Absent == [t |-> "absent", s |-> "", n |-> 0, a |-> <<>>]
Str(s) == [t |-> "str", s |-> s, n |-> 0, a |-> <<>>]
Num(n) == [t |-> "num", s |-> "", n |-> n, a |-> <<>>]
Arr(a) == [t |-> "arr", s |-> "", n |-> 0, a |-> a]
\* Elements of a JSON array ([]interface{}).
EStr(s) == [t |-> "str", s |-> s]
ENum == [t |-> "num", s |-> ""]

\* auth.Config as NewRouter builds it from the configuration.
Issuer == "issuer"
Audience == "backboard"
Config == [Issuer |-> Issuer, Audience |-> Audience]

(***************************************************************************)
(* A token string is the sequence of its dot-separated segments            *)
(* (strings.Split(tokenString, ".")).  A segment records whether it is     *)
(* valid unpadded base64url, whether the decoded bytes are a JSON object,  *)
(* and what that object holds.  The signature segment records the key      *)
(* material and algorithm that produced it and whether header and payload  *)
(* are still the bytes that were signed.                                   *)
(***************************************************************************)
NoClaims ==
    [iss |-> Absent, aud |-> Absent, sub |-> Absent, exp |-> Absent, nbf |-> Absent,
     org_id |-> Absent, roles |-> Absent, permissions |-> Absent,
     email |-> Absent, name |-> Absent]
NoSig == [mat |-> "", alg |-> "", intact |-> FALSE]
Segment(b64, json, kid, alg, claims, sig) ==
    [b64 |-> b64, json |-> json, kid |-> kid, alg |-> alg, claims |-> claims, sig |-> sig]
Header(b64, json, kid, alg) == Segment(b64, json, kid, alg, NoClaims, NoSig)
Payload(b64, json, claims) == Segment(b64, json, Absent, Absent, claims, NoSig)
Signature(b64, mat, alg, intact) ==
    Segment(b64, FALSE, Absent, Absent, NoClaims, [mat |-> mat, alg |-> alg, intact |-> intact])

Claims(iss, aud, sub, exp, nbf) ==
    [NoClaims EXCEPT !.iss = iss, !.aud = aud, !.sub = sub, !.exp = exp, !.nbf = nbf]

\* AuthContext; a nil *string field is Absent, a set one is Str(s).
AuthContext(uid, org, roles, perms, email, name) ==
    [UserID |-> uid, OrgID |-> org, Roles |-> roles, Permissions |-> perms,
     Email |-> email, Name |-> name]
NoCtx == [UserID |-> "", OrgID |-> Absent, Roles |-> <<>>, Permissions |-> <<>>,
          Email |-> Absent, Name |-> Absent]

\* What VerifyToken returns: err = "" is a nil error and ctx the AuthContext.
\* log lists the steps of VerifyToken that ran, in order; sigKeys lists the
\* keys handed to the signing method's Verify.
Result(err, cause, ctx, log, sigKeys) ==
    [err |-> err, cause |-> cause, ctx |-> ctx, log |-> log, sigKeys |-> sigKeys]
NoResult == Result("none", "", NoCtx, <<>>, <<>>)

(***************************************************************************)
(* VerifyToken, the part before the key set is fetched: split the token    *)
(* and read kid from the decoded header.  "" means the checks passed.      *)
(***************************************************************************)
\* HeaderCheck that lets a header without a string kid through.
HeaderCheckKidOptional(tok) ==
    IF Len(tok) # 3 THEN "invalid token format"
    ELSE IF ~tok[1].b64 THEN "failed to decode token header"
    ELSE IF ~tok[1].json THEN "failed to parse token header"
    ELSE ""

HeaderCheck(tok) ==
    IF Len(tok) # 3 THEN "invalid token format"
    ELSE IF ~tok[1].b64 THEN "failed to decode token header"
    ELSE IF ~tok[1].json THEN "failed to parse token header"
    ELSE IF tok[1].kid.t # "str" THEN "token missing kid in header"
    ELSE ""

HeadLog == <<"split", "header", "kid">>

\* jwk.Set.LookupKeyID: the first key of the set whose key id is kid.
RECURSIVE LookupFrom(_, _, _)
LookupFrom(keys, kid, i) ==
    IF i > Len(keys) THEN [found |-> FALSE, key |-> NoKey]
    ELSE IF keys[i].kid = kid THEN [found |-> TRUE, key |-> keys[i]]
    ELSE LookupFrom(keys, kid, i + 1)

\* LookupKeyID falling back to the first key of the set for an unknown kid.
LookupKeyIDOrFirst(set, kid) ==
    IF LookupFrom(set.keys, kid, 1).found \/ Len(set.keys) = 0
    THEN LookupFrom(set.keys, kid, 1)
    ELSE [found |-> TRUE, key |-> set.keys[1]]

LookupKeyID(set, kid) == LookupFrom(set.keys, kid, 1)

\* The signing methods registered with the jwt package, and those whose Go
\* type is *jwt.SigningMethodRSA.
RSAMethods == {"RS256", "RS384", "RS512"}
RegisteredMethods == RSAMethods \cup {"PS256", "ES256", "HS256", "none"}

\* A key function that accepts whatever method the header names.
KeyFuncAcceptsAny(alg) == TRUE

\* The key function VerifyToken passes to jwt.Parse.
KeyFuncAccepts(alg) == alg \in RSAMethods

\* SigningMethodRSA.Verify of the signing string against the signature.
MethodVerify(alg, key, sig) ==
    /\ key.kty = "RSA"
    /\ sig.alg = alg
    /\ sig.mat = key.mat
    /\ sig.intact

\* The jwt validator's check of exp at time t: a number, and t before it.
ExpError(claims, t) ==
    IF claims.exp.t \notin {"absent", "num"} THEN "invalid exp"
    ELSE IF claims.exp.t = "num" /\ t >= claims.exp.n THEN "token is expired"
    ELSE ""

\* The jwt validator's check of nbf at time t: a number, and t not before it.
NbfError(claims, t) ==
    IF claims.nbf.t \notin {"absent", "num"} THEN "invalid nbf"
    ELSE IF claims.nbf.t = "num" /\ t < claims.nbf.n THEN "token is not valid yet"
    ELSE ""

\* The validator joins the errors it found into one error, which errors.Is
\* matches against each of them.
JoinErrors(a, b) ==
    IF a = "" THEN b
    ELSE IF b = "" THEN a
    ELSE IF a = "token is expired" /\ b = "token is not valid yet"
         THEN "token is expired, token is not valid yet"
    ELSE IF a = "token is expired" THEN "token is expired, invalid nbf"
    ELSE IF b = "token is not valid yet" THEN "invalid exp, token is not valid yet"
    ELSE "invalid exp, invalid nbf"

ErrorIs(err, target) ==
    \/ err = target
    \/ target = "token is expired"
          /\ err \in {"token is expired, token is not valid yet", "token is expired, invalid nbf"}
    \/ target = "token is not valid yet"
          /\ err \in {"token is expired, token is not valid yet",
                      "invalid exp, token is not valid yet"}

\* TimeClaimsError for a validator that stops at the signature.
TimeClaimsUnchecked(claims, t) == ""

\* The jwt validator's default checks of the registered time claims at time
\* t: every check runs and the errors are joined.
TimeClaimsError(claims, t) == JoinErrors(ExpError(claims, t), NbfError(claims, t))

\* jwt.Parse(tokenString, keyFunc) with the key function of VerifyToken
\* returning publicKey: err = "" when the token is valid.
JwtParse(tok, publicKey, t) ==
    LET hdr == tok[1]
        pl == tok[2]
        sg == tok[3]
        out(err, log, keys) == [err |-> err, log |-> log, sigKeys |-> keys]
    IN  IF ~(pl.b64 /\ pl.json) THEN out("token is malformed", <<>>, <<>>)
        ELSE IF hdr.alg.t # "str" THEN out("signing method (alg) is unspecified", <<>>, <<>>)
        ELSE IF hdr.alg.s \notin RegisteredMethods
             THEN out("signing method (alg) is unavailable", <<>>, <<>>)
        ELSE IF ~sg.b64 THEN out("could not base64 decode signature", <<>>, <<>>)
        ELSE IF ~KeyFuncAccepts(hdr.alg.s)
             THEN out("unexpected signing method", <<"keyfunc">>, <<>>)
        ELSE IF ~MethodVerify(hdr.alg.s, publicKey, sg.sig)
             THEN out("signature is invalid", <<"keyfunc", "sigverify">>, <<publicKey>>)
        ELSE out(TimeClaimsError(pl.claims, t),
                 <<"keyfunc", "sigverify", "timeclaims">>, <<publicKey>>)

\* An issuer check that, like the audience check, lets a claim that is not a
\* string pass.
IssuerOKUnlessWrongString(claims) == claims.iss.t = "str" => claims.iss.s = Config.Issuer

\* The issuer check: iss must be a string equal to config.Issuer.
IssuerOK(claims) == claims.iss.t = "str" /\ claims.iss.s = Config.Issuer

\* The audience check: TRUE when VerifyToken returns "invalid audience".
AudienceRejected(claims) ==
    IF claims.aud.t = "str" /\ claims.aud.s # Config.Audience THEN TRUE
    ELSE IF claims.aud.t = "arr"
         THEN ~\E i \in 1..Len(claims.aud.a) :
                  claims.aud.a[i].t = "str" /\ claims.aud.a[i].s = Config.Audience
    ELSE FALSE

\* A subject check that accepts the empty string.
SubjectOKAllowEmpty(claims) == claims.sub.t = "str"

\* The subject check: sub must be a non-empty string.
SubjectOK(claims) == claims.sub.t = "str" /\ claims.sub.s # ""

\* An optional string claim: a pointer to it when it is a non-empty string.
OptString(v) == IF v.t = "str" /\ v.s # "" THEN Str(v.s) ELSE Absent

\* An optional list claim: the string entries of the array, in order.
IsStr(e) == e.t = "str"
StringsOf(v) ==
    IF v.t = "arr"
    THEN LET sel == SelectSeq(v.a, IsStr) IN [i \in 1..Len(sel) |-> sel[i].s]
    ELSE <<>>

ExtractContext(claims) ==
    AuthContext(claims.sub.s, OptString(claims.org_id), StringsOf(claims.roles),
                StringsOf(claims.permissions), OptString(claims.email),
                OptString(claims.name))

\* KeySetUnavailable with the error of GetKeySet ignored.
KeySetErrorIgnored(ret) == FALSE

\* if err != nil after GetKeySet: VerifyToken returns "failed to get JWKS".
KeySetUnavailable(ret) == ret.err # ""

(***************************************************************************)
(* VerifyToken from the return of GetKeySet on: ret is what GetKeySet      *)
(* returned ([set, err], err = "" for nil) and t the time at which         *)
(* jwt.Parse validates the token.                                          *)
(***************************************************************************)
VerifyTail(tok, ret, t) ==
    LET kid == tok[1].kid.s
        claims == tok[2].claims
        log0 == HeadLog \o <<"getkeyset">>
        lk == LookupKeyID(ret.set, kid)
        log1 == log0 \o <<"lookup">>
        p == JwtParse(tok, lk.key, t)
        log2 == log1 \o <<"raw", "parse">> \o p.log
    IN  IF KeySetUnavailable(ret)
        THEN Result("failed to get JWKS", ret.err, NoCtx, log0, <<>>)
        ELSE IF ~lk.found THEN Result("key not found for kid", kid, NoCtx, log1, <<>>)
        ELSE IF p.err # ""
             THEN Result("token verification failed", p.err, NoCtx, log2, p.sigKeys)
        ELSE IF ~IssuerOK(claims)
             THEN Result("invalid issuer", "", NoCtx, log2 \o <<"iss">>, p.sigKeys)
        ELSE IF AudienceRejected(claims)
             THEN Result("invalid audience", "", NoCtx, log2 \o <<"iss", "aud">>, p.sigKeys)
        ELSE IF ~SubjectOK(claims)
             THEN Result("token missing sub claim", "", NoCtx,
                         log2 \o <<"iss", "aud", "sub">>, p.sigKeys)
        ELSE Result("", "", ExtractContext(claims),
                    log2 \o <<"iss", "aud", "sub", "extract">>, p.sigKeys)

\* VerifyToken when the header checks fail: GetKeySet is never called.
VerifyHead(tok) ==
    Result(HeaderCheck(tok), "", NoCtx,
           IF Len(tok) # 3 THEN <<"split">>
           ELSE IF ~(tok[1].b64 /\ tok[1].json) THEN <<"split", "header">>
           ELSE HeadLog,
           <<>>)

(***************************************************************************)
(* The HTTP layer.  A request carries an Authorization header: a scheme    *)
(* prefix followed by the token text; the absent header is the empty       *)
(* string.  The value under the key "auth" of a request's gin.Context is   *)
(* missing, an *AuthContext, or a value of another type.                   *)
(***************************************************************************)
AuthHeader(scheme, t) == [scheme |-> scheme, tok |-> t]
NoHeader == AuthHeader("", <<>>)
Bearer(t) == AuthHeader("Bearer ", t)
\* Prefixes that are not the literal "Bearer ".
OtherSchemes == {"Basic ", "bearer "}

\* A header check that only asks for a header to be present.
HeaderPresent(h) == h # NoHeader

\* authHeader != "" && strings.HasPrefix(authHeader, "Bearer ")
HeaderAccepted(h) == h # NoHeader /\ h.scheme = "Bearer "

\* strings.TrimPrefix(authHeader, "Bearer "): a header without the prefix is
\* returned whole, so that the other prefix, which is not base64url text, is
\* the beginning of its first segment.
TrimPrefix(h) ==
    IF h.scheme = "Bearer " THEN h.tok
    ELSE IF h.tok = <<>> THEN <<Segment(FALSE, FALSE, Absent, Absent, NoClaims, NoSig)>>
    ELSE [h.tok EXCEPT ![1] = [@ EXCEPT !.b64 = FALSE]]

NoAuth == [exists |-> FALSE, isCtx |-> FALSE, ctx |-> NoCtx]
Attached(ctx) == [exists |-> TRUE, isCtx |-> TRUE, ctx |-> ctx]
Foreign == [exists |-> TRUE, isCtx |-> FALSE, ctx |-> NoCtx]

\* The JSON body of a response (gin.H, ErrorResponse, UploadResponse); the
\* details of an "Invalid token" body are err.Error(): the message of
\* VerifyToken's error and of the error it wraps.
Body(error, details, required, has) ==
    [error |-> error, details |-> details, required |-> required, has |-> has]
Message(error) == Body(error, <<>>, <<>>, <<>>)
ErrorText(v) == <<v.err, v.cause>>

\* What a handler of the chain does: the status and body it writes (status 0:
\* it writes nothing), and whether it calls c.Next() rather than c.Abort().
Handled(status, body, next) == [status |-> status, body |-> body, next |-> next]

\* AuthMiddleware on a header the check refuses, and on the result v of
\* VerifyToken.
RefuseHeader == Handled(401, Message("Missing or invalid authorization header"), FALSE)

GateReply(v) ==
    IF v.err # ""
    THEN Handled(401, Body("Invalid token", ErrorText(v), <<>>, <<>>), FALSE)
    ELSE Handled(0, Message(""), TRUE)

\* The loop of RequirePermissions: every required permission is one of perms.
HasAll(requiredPermissions, perms) ==
    \A i \in DOMAIN requiredPermissions :
        \E j \in DOMAIN perms : perms[j] = requiredPermissions[i]

\* RequirePermissions granting the request when any one permission is held.
RequirePermissionsAny(requiredPermissions, auth) ==
    IF ~auth.exists THEN Handled(401, Message("Not authenticated"), FALSE)
    ELSE IF ~auth.isCtx THEN Handled(401, Message("Invalid auth context"), FALSE)
    ELSE IF ~\E i \in DOMAIN requiredPermissions :
                \E j \in DOMAIN auth.ctx.Permissions :
                    auth.ctx.Permissions[j] = requiredPermissions[i]
         THEN Handled(403, Body("Insufficient permissions", <<>>, requiredPermissions,
                                auth.ctx.Permissions), FALSE)
    ELSE Handled(0, Message(""), TRUE)

\* The handler RequirePermissions(requiredPermissions) returns, run on a
\* request whose "auth" key holds auth.
RequirePermissions(requiredPermissions, auth) ==
    IF ~auth.exists THEN Handled(401, Message("Not authenticated"), FALSE)
    ELSE IF ~auth.isCtx THEN Handled(401, Message("Invalid auth context"), FALSE)
    ELSE IF ~HasAll(requiredPermissions, auth.ctx.Permissions)
         THEN Handled(403, Body("Insufficient permissions", <<>>, requiredPermissions,
                                auth.ctx.Permissions), FALSE)
    ELSE Handled(0, Message(""), TRUE)

\* The ways UploadHandler.Upload ends; storage.Save is called in the last two.
UploadOutcomes == {"nofile", "toolarge", "openfail", "badtype", "savefail", "ok"}
UploadSaves(o) == o \in {"savefail", "ok"}
Upload(o) ==
    IF o = "nofile" THEN Handled(400, Message("No file provided"), FALSE)
    ELSE IF o = "toolarge" THEN Handled(413, Message("File too large"), FALSE)
    ELSE IF o = "openfail" THEN Handled(500, Message("Failed to process file"), FALSE)
    ELSE IF o = "badtype"
         THEN Handled(400, Body("Unsupported file type",
                                <<"Allowed types: image/jpeg, image/png, image/webp">>,
                                <<>>, <<>>), FALSE)
    ELSE IF o = "savefail" THEN Handled(500, Message("Failed to save file"), FALSE)
    ELSE Handled(200, Message(""), FALSE)

\* The routers: NewRouter with the /files group behind AuthMiddleware and
\* RequirePermissions, and NewRouter with POST /files served by Upload alone.
Routers == {"gated", "open"}
UploadPermissions == <<"files:upload">>

\* A finished request: its header, the handlers that ran, the response, the
\* value under "auth" when it ended and whether storage.Save was called.
Reply(req, ran, h, auth, saved) ==
    [req |-> req, ran |-> ran, status |-> h.status, body |-> h.body,
     auth |-> auth, saved |-> saved]
NoReply == Reply(NoHeader, <<>>, Handled(0, Message(""), FALSE), NoAuth, FALSE)

(***************************************************************************)
(* The state.                                                              *)
(*   now        the clock time.Now() reads                                 *)
(*   urlValid   whether JWKSClient.url parses (http.NewRequestWithContext) *)
(*   cache      JWKSClient.cache                                           *)
(*   muReaders, muPending, muWriter   JWKSClient.mu, a sync.RWMutex: the   *)
(*              callers holding it shared, the caller that has announced   *)
(*              Lock (new RLock calls queue from then on), and the caller  *)
(*              holding it exclusively                                     *)
(*   pc         where each caller of VerifyToken is                        *)
(*   tok        the token each caller in a call verifies                   *)
(*   input      the token the caller of SpecVerify verifies                *)
(* History:                                                                *)
(*   inWindow   the caller's call in progress began before time TTL, that  *)
(*              is, within the first TTL window                            *)
(*   windowFetches  the number of HTTP requests issued by the calls that   *)
(*              began within the first TTL window (counted up to 2)        *)
(*   refreshed  another caller stored a key set while this one, having     *)
(*              found the cache stale, waited for exclusive access         *)
(*   written    the key set and the time of the last store into the cache  *)
(*   last       the call that returned last: its token, its refreshed      *)
(*              flag, how its HTTP fetch ended ("none": none was issued),  *)
(*              what GetKeySet returned and what VerifyToken returned      *)
(* The HTTP layer:                                                         *)
(*   routed     the router main serves                                     *)
(*   required   the list given to RequirePermissions on the upload route   *)
(*   stage      where the request of each caller is in its handler chain:  *)
(*              "none" (no request, or still in AuthMiddleware), "next"    *)
(*              (AuthMiddleware has called c.Next()), "perm" (a chain that *)
(*              starts at RequirePermissions)                              *)
(*   header     the Authorization header of each request in VerifyToken or *)
(*              past it                                                    *)
(*   authKeys   the value under "auth" in the gin.Context of each request  *)
(*   done       the request that finished last (history)                   *)
(***************************************************************************)
VARIABLES now, urlValid, cache, muReaders, muPending, muWriter,
          pc, tok, input, inWindow, windowFetches, refreshed, written, last,
          routed, required, stage, header, authKeys, done

vars == <<now, urlValid, cache, muReaders, muPending, muWriter,
          pc, tok, input, inWindow, windowFetches, refreshed, written, last,
          routed, required, stage, header, authKeys, done>>

Ret(set, err) == [set |-> set, err |-> err]
NoRet == Ret(NilSet, "none")
NoWrite == [set |-> NilSet, at |-> 0 - 1]

\* Fresh with the comparison off by one tick.
FreshOffByOne(c, t) == c.present /\ t + 1 < c.expiresAt

\* c.cache != nil && time.Now().Before(c.cache.expiresAt)
Fresh(c, t) == c.present /\ t < c.expiresAt

\* NewEntry without the TTL: the entry expires when it is stored.
NewEntryNoTTL(set, t) == Cached(set, t)

\* &cachedJWKS{set: set, expiresAt: time.Now().Add(c.cacheTTL)}
NewEntry(set, t) == Cached(set, t + TTL)

\* What GetKeySet returns when the fetch fails with outcome o.
FetchError(o) ==
    IF o \in {"transport", "canceled"} THEN "failed to fetch JWKS"
    ELSE IF o = "status" THEN "JWKS endpoint returned status"
    ELSE "failed to parse JWKS"

\* FailureReturn without the stale fallback.
FailureReturnNoFallback(c, o) == Ret(NilSet, FetchError(o))

FailureReturn(c, o) == IF c.present THEN Ret(c.set, "") ELSE Ret(NilSet, FetchError(o))

(***************************************************************************)
(* Tokens.                                                                 *)
(***************************************************************************)
GoodClaims == Claims(Str(Issuer), Str(Audience), Str("u1"), Absent, Absent)
RS256Header(kid) == Header(TRUE, TRUE, Str(kid), Str("RS256"))
SignedBy(mat) == Signature(TRUE, mat, "RS256", TRUE)
Garbage == Segment(FALSE, FALSE, Absent, Absent, NoClaims, NoSig)

\* Tokens of the concurrent callers: a malformed one and one signed by the
\* key k1 of KS1 (KS2 has no key k1).
TokMalformed == <<Garbage>>
TokK1 == <<RS256Header("k1"), Payload(TRUE, TRUE, GoodClaims), SignedBy("m1")>>
CallTokens == {TokMalformed, TokK1}

\* Tokens verified under SpecVerify.
IssValues == {Absent, Num(1), Str(Issuer), Str("other")}
AudValues == {Absent, Num(1), Str(Audience), Str("other"), Arr(<<>>),
              Arr(<<EStr(Audience)>>), Arr(<<EStr("other")>>),
              Arr(<<EStr("other"), EStr(Audience)>>), Arr(<<ENum>>)}
SubValues == {Absent, Num(1), Str(""), Str("u1")}
ExpValues == {Absent, Num(0 - 1), Num(0), Num(1), Str("x")}
NbfValues == {Absent, Num(0), Num(1)}
ClaimSets == {Claims(i, a, s, e, n) :
                 i \in IssValues, a \in AudValues, s \in SubValues,
                 e \in ExpValues, n \in NbfValues}

KidValues == {Str("k1"), Str("k2"), Str("k3"), Str("kX"), Absent, Num(1)}
AlgValues == {Str("RS256"), Str("RS512"), Str("PS256"), Str("HS256"), Str("none"),
              Str("XX"), Absent}
SigValues == {SignedBy("m1"), SignedBy("m2"), SignedBy("m3"), SignedBy("m4"),
              Signature(TRUE, "m1", "RS256", FALSE), Signature(TRUE, "m1", "HS256", TRUE),
              Signature(TRUE, "m1", "RS512", TRUE), Signature(FALSE, "m1", "RS256", TRUE)}

StructTokens ==
    {<<>>, <<RS256Header("k1"), Payload(TRUE, TRUE, GoodClaims)>>,
     <<RS256Header("k1"), Payload(TRUE, TRUE, GoodClaims), SignedBy("m1"), Garbage>>,
     <<Header(FALSE, FALSE, Absent, Absent), Payload(TRUE, TRUE, GoodClaims), SignedBy("m1")>>,
     <<Header(TRUE, FALSE, Absent, Absent), Payload(TRUE, TRUE, GoodClaims), SignedBy("m1")>>,
     <<RS256Header("k1"), Payload(FALSE, FALSE, NoClaims), SignedBy("m1")>>,
     <<RS256Header("k1"), Payload(TRUE, FALSE, NoClaims), SignedBy("m1")>>}
HeaderTokens ==
    {<<Header(TRUE, TRUE, k, a), Payload(TRUE, TRUE, c), s>> :
        k \in KidValues, a \in AlgValues, s \in SigValues,
        c \in {GoodClaims, Claims(Str("other"), Str(Audience), Str("u1"), Absent, Absent)}}
ClaimTokens ==
    {<<RS256Header(h[1]), Payload(TRUE, TRUE, c), SignedBy(h[2])>> :
        h \in {<<"k1", "m1">>, <<"k2", "m2">>, <<"k1", "m2">>}, c \in ClaimSets}
Tokens == StructTokens \cup HeaderTokens \cup ClaimTokens \cup CallTokens

(***************************************************************************)
(* The state NewJWKSClient leaves, no call in progress; the token of       *)
(* SpecVerify is one of toks.                                              *)
(***************************************************************************)
NoToken == <<>>
NoCall == [tok |-> NoToken, waited |-> FALSE, outcome |-> "none", ret |-> NoRet,
           res |-> NoResult]

StartWith(toks, routers) ==
    /\ routed \in routers
    /\ required = UploadPermissions
    /\ stage = [p \in Callers |-> "none"]
    /\ header = [p \in Callers |-> NoHeader]
    /\ authKeys = [p \in Callers |-> NoAuth]
    /\ done = NoReply
    /\ now = 0
    /\ urlValid \in BOOLEAN
    /\ cache = NoCache
    /\ muReaders = {}
    /\ muPending = NoCaller
    /\ muWriter = NoCaller
    /\ pc = [p \in Callers |-> "idle"]
    /\ tok = [p \in Callers |-> NoToken]
    /\ input \in toks
    /\ inWindow = [p \in Callers |-> FALSE]
    /\ windowFetches = 0
    /\ refreshed = [p \in Callers |-> FALSE]
    /\ written = NoWrite
    /\ last = NoCall

\* main serving the router whose /files group is behind the two middlewares.
Start(toks) == StartWith(toks, {"gated"})

Init == Start({NoToken})

\* time.Now() advances.
Tick ==
    /\ now < MaxTime
    /\ now' = now + 1
    /\ UNCHANGED <<urlValid, cache, muReaders, muPending, muWriter,
                   pc, tok, input, inWindow, windowFetches, refreshed, written, last,
                   routed, required, stage, header, authKeys, done>>

\* RLockGranted for a lock without shared mode: one holder at a time.
RLockGrantedAlone == muPending = NoCaller /\ muReaders = {}

\* c.mu.RLock() is granted at once unless a caller has announced Lock.
RLockGranted == muPending = NoCaller

\* The record of a call on token t that returns: w is its refreshed flag, o
\* how its fetch ended, r what GetKeySet returned and v what VerifyToken
\* returns.
Returned(t, w, o, r, v) == [tok |-> t, waited |-> w, outcome |-> o, ret |-> r, res |-> v]

(***************************************************************************)
(* A caller starts VerifyToken on a token of toks.  When the header checks *)
(* fail it returns at once; otherwise it calls GetKeySet, whose first      *)
(* statement is c.mu.RLock(): the caller holds the lock shared, or queues  *)
(* behind the caller that announced Lock.  What AuthMiddleware, the caller *)
(* of VerifyToken, does with header and done is part of Request.           *)
(***************************************************************************)
Call(p, toks) ==
    /\ pc[p] = "idle"
    /\ stage[p] = "none"
    /\ \E t \in toks :
          IF HeaderCheck(t) # ""
          THEN /\ last' = Returned(t, FALSE, "none", NoRet, VerifyHead(t))
               /\ UNCHANGED <<pc, tok, inWindow, muReaders>>
          ELSE /\ tok' = [tok EXCEPT ![p] = t]
               /\ inWindow' = [inWindow EXCEPT ![p] = now < TTL]
               /\ IF RLockGranted
                  THEN /\ pc' = [pc EXCEPT ![p] = "rlocked"]
                       /\ muReaders' = muReaders \cup {p}
                  ELSE /\ pc' = [pc EXCEPT ![p] = "rwait"]
                       /\ UNCHANGED muReaders
               /\ UNCHANGED last
    /\ UNCHANGED <<now, urlValid, cache, muPending, muWriter, input, windowFetches,
                   refreshed, written, routed, required, stage, authKeys>>

\* c.Set("auth", value) storing the value in one place for all requests.
\* c.Set on a context shared by all requests.
SetAuthShared(k, p, value) == [q \in Callers |-> value]

\* c.Set("auth", value) on the gin.Context of the request of p.
SetAuth(k, p, value) == [k EXCEPT ![p] = value]

\* GetKeySet returns r to VerifyToken, which runs to its end, and
\* AuthMiddleware answers 401 or attaches the AuthContext and calls c.Next();
\* o is how the fetch of the call ended.
Finish(p, o, r) ==
    LET v == VerifyTail(tok[p], r, now)
    IN  /\ last' = Returned(tok[p], refreshed[p], o, r, v)
        /\ inWindow' = [inWindow EXCEPT ![p] = FALSE]
        /\ IF GateReply(v).next
           THEN /\ authKeys' = SetAuth(authKeys, p, Attached(v.ctx))
                /\ stage' = [stage EXCEPT ![p] = "next"]
                /\ UNCHANGED <<tok, header, done>>
           ELSE /\ done' = Reply(header[p], <<"auth">>, GateReply(v), authKeys[p], FALSE)
                /\ tok' = [tok EXCEPT ![p] = NoToken]
                /\ header' = [header EXCEPT ![p] = NoHeader]
                /\ UNCHANGED <<stage, authKeys>>

\* A return path that leaves without c.mu.Unlock().
ReturnWithoutUnlock(p) ==
    /\ pc' = [pc EXCEPT ![p] = "idle"]
    /\ UNCHANGED <<muWriter, muPending, muReaders>>

\* c.mu.Unlock() by p, which returns: the readers queued behind the writer
\* are all admitted.
UnlockAndReturn(p) ==
    /\ muWriter' = NoCaller
    /\ muPending' = NoCaller
    /\ muReaders' = {q \in Callers : pc[q] = "rwait"}
    /\ pc' = [q \in Callers |->
                IF q = p THEN "idle" ELSE IF pc[q] = "rwait" THEN "rlocked" ELSE pc[q]]

(***************************************************************************)
(* The read path: under the shared lock, a fresh cache is returned;        *)
(* otherwise the shared lock is released and the caller goes on to Lock.   *)
(***************************************************************************)
FastPath(p) ==
    /\ pc[p] = "rlocked"
    /\ muReaders' = muReaders \ {p}
    /\ IF Fresh(cache, now)
       THEN /\ Finish(p, "none", Ret(cache.set, ""))
            /\ pc' = [pc EXCEPT ![p] = "idle"]
       ELSE /\ pc' = [pc EXCEPT ![p] = "wlock"]
            /\ UNCHANGED <<tok, inWindow, last, stage, header, authKeys, done>>
    /\ UNCHANGED <<now, urlValid, cache, muPending, muWriter, input, windowFetches,
                   refreshed, written, routed, required>>

\* LockAnnounce without the mutual exclusion of writers.
LockAnnounceUnguarded(p) ==
    /\ pc[p] = "wlock"
    /\ muPending' = p
    /\ pc' = [pc EXCEPT ![p] = "wpend"]
    /\ UNCHANGED <<now, urlValid, cache, muReaders, muWriter,
                   tok, input, inWindow, windowFetches, refreshed, written, last,
                   routed, required, stage, header, authKeys, done>>

\* c.mu.Lock(), first half: the caller becomes the one pending writer; from
\* now on RLock calls queue.
LockAnnounce(p) ==
    /\ pc[p] = "wlock"
    /\ muPending = NoCaller
    /\ muPending' = p
    /\ pc' = [pc EXCEPT ![p] = "wpend"]
    /\ UNCHANGED <<now, urlValid, cache, muReaders, muWriter,
                   tok, input, inWindow, windowFetches, refreshed, written, last,
                   routed, required, stage, header, authKeys, done>>

\* c.mu.Lock(), second half: the pending writer holds the lock once the
\* readers have left.
LockAcquire(p) ==
    /\ pc[p] = "wpend"
    /\ muReaders = {}
    /\ muWriter' = p
    /\ pc' = [pc EXCEPT ![p] = "wcheck"]
    /\ UNCHANGED <<now, urlValid, cache, muReaders, muPending,
                   tok, input, inWindow, windowFetches, refreshed, written, last,
                   routed, required, stage, header, authKeys, done>>

(***************************************************************************)
(* Under the exclusive lock: the second freshness check, then the request  *)
(* is built and sent.                                                      *)
(***************************************************************************)
SlowCheck(p) ==
    /\ pc[p] = "wcheck"
    /\ IF Fresh(cache, now)
       THEN /\ Finish(p, "none", Ret(cache.set, ""))
            /\ UnlockAndReturn(p)
            /\ refreshed' = [refreshed EXCEPT ![p] = FALSE]
            /\ UNCHANGED windowFetches
       ELSE IF ~urlValid
       THEN /\ Finish(p, "none", Ret(NilSet, "failed to create request"))
            /\ UnlockAndReturn(p)
            /\ refreshed' = [refreshed EXCEPT ![p] = FALSE]
            /\ UNCHANGED windowFetches
       ELSE /\ pc' = [pc EXCEPT ![p] = "fetching"]
            /\ windowFetches' = IF inWindow[p] /\ windowFetches < 2
                                THEN windowFetches + 1 ELSE windowFetches
            /\ UNCHANGED <<muReaders, muPending, muWriter, tok, inWindow, last, refreshed,
                           stage, header, authKeys, done>>
    /\ UNCHANGED <<now, urlValid, cache, input, written, routed, required>>

\* A failed fetch that drops the stored entry.
AfterFailureEvicts(c, o) == NoCache

\* c.cache after a fetch that ended in failure o: no branch of lines 109-130
\* assigns it.
AfterFailure(c, o) == c

\* c.httpClient.Do returns and the response is handled: a new entry is
\* stored on success, the stale entry (if any) is returned on failure.
FetchDone(p) ==
    /\ pc[p] = "fetching"
    /\ \E o \in FetchOutcomes :
          IF o = "ok"
          THEN \E ks \in KeySetDocs :
                  /\ cache' = NewEntry(ks, now)
                  /\ written' = [set |-> ks, at |-> now]
                  /\ refreshed' = [q \in Callers |->
                                     q # p /\ (refreshed[q] \/ pc[q] \in {"wlock", "wpend"})]
                  /\ Finish(p, o, Ret(ks, ""))
          ELSE /\ Finish(p, o, FailureReturn(cache, o))
               /\ refreshed' = [refreshed EXCEPT ![p] = FALSE]
               /\ cache' = AfterFailure(cache, o)
               /\ UNCHANGED written
    /\ UnlockAndReturn(p)
    /\ UNCHANGED <<now, urlValid, input, windowFetches, routed, required>>

(***************************************************************************)
(* The handlers behind AuthMiddleware, run on the request of p with the    *)
(* handlers of ran before them: RequirePermissions and, when it calls      *)
(* c.Next(), Upload.  The request ends and its gin.Context is reset.       *)
(***************************************************************************)
Chain(p, ran) ==
    /\ LET h == RequirePermissions(required, authKeys[p])
       IN  IF h.next
           THEN \E o \in UploadOutcomes :
                   done' = Reply(header[p], ran \o <<"perm", "upload">>, Upload(o),
                                 authKeys[p], UploadSaves(o))
           ELSE done' = Reply(header[p], ran \o <<"perm">>, h, authKeys[p], FALSE)
    /\ stage' = [stage EXCEPT ![p] = "none"]
    /\ header' = [header EXCEPT ![p] = NoHeader]
    /\ authKeys' = [authKeys EXCEPT ![p] = NoAuth]
    /\ tok' = [tok EXCEPT ![p] = NoToken]
    /\ UNCHANGED <<now, urlValid, cache, muReaders, muPending, muWriter, pc, input,
                   inWindow, windowFetches, refreshed, written, last, routed, required>>

\* c.Next() of AuthMiddleware.
Proceed(p) == stage[p] = "next" /\ Chain(p, <<"auth">>)

\* RequirePermissions as the first handler of a chain.
PermissionOnly(p) == stage[p] = "perm" /\ Chain(p, <<>>)

(***************************************************************************)
(* A request with a header of hdrs arrives at POST /files.  The open       *)
(* router runs Upload at once.  The gated router runs AuthMiddleware: it   *)
(* answers 401 to a header it refuses, and calls VerifyToken on the rest   *)
(* of the others.                                                          *)
(***************************************************************************)
Request(p, hdrs) ==
    /\ pc[p] = "idle"
    /\ stage[p] = "none"
    /\ \E h \in hdrs :
          IF routed = "open"
          THEN /\ \E o \in UploadOutcomes :
                     done' = Reply(h, <<"upload">>, Upload(o), NoAuth, UploadSaves(o))
               /\ UNCHANGED <<now, urlValid, cache, muReaders, muPending, muWriter, pc,
                              tok, input, inWindow, windowFetches, refreshed, written,
                              last, routed, required, stage, header, authKeys>>
          ELSE IF ~HeaderAccepted(h)
          THEN /\ done' = Reply(h, <<"auth">>, RefuseHeader, NoAuth, FALSE)
               /\ UNCHANGED <<now, urlValid, cache, muReaders, muPending, muWriter, pc,
                              tok, input, inWindow, windowFetches, refreshed, written,
                              last, routed, required, stage, header, authKeys>>
          ELSE /\ Call(p, {TrimPrefix(h)})
               /\ IF HeaderCheck(TrimPrefix(h)) # ""
                  THEN /\ done' = Reply(h, <<"auth">>, GateReply(VerifyHead(TrimPrefix(h))),
                                        NoAuth, FALSE)
                       /\ UNCHANGED header
                  ELSE /\ header' = [header EXCEPT ![p] = h]
                       /\ UNCHANGED done

\* The requests of the concurrent callers.
CallRequests == {Bearer(t) : t \in CallTokens}

Next ==
    \/ Tick
    \/ \E p \in Callers :
          \/ Request(p, CallRequests)
          \/ Proceed(p)
          \/ FastPath(p)
          \/ LockAnnounce(p)
          \/ LockAcquire(p)
          \/ SlowCheck(p)
          \/ FetchDone(p)

Spec == Init /\ [][Next]_vars

\* One caller verifying, again and again, one token of Tokens; the clock
\* stands still.
InitVerify == Start(Tokens)

NextVerify ==
    \/ Request(1, {Bearer(input)})
    \/ Proceed(1)
    \/ FastPath(1)
    \/ LockAnnounce(1)
    \/ LockAcquire(1)
    \/ SlowCheck(1)
    \/ FetchDone(1)

SpecVerify == InitVerify /\ [][NextVerify]_vars

(***************************************************************************)
(* SpecGate: one client sending requests to POST /files one after the     *)
(* other, with any header and token, served by either router.              *)
(***************************************************************************)
WithClaims(c) == <<RS256Header("k1"), Payload(TRUE, TRUE, c), SignedBy("m1")>>
UploadClaims == [GoodClaims EXCEPT !.permissions = Arr(<<EStr("files:upload")>>)]
DeleteClaims ==
    [GoodClaims EXCEPT !.sub = Str("u2"), !.permissions = Arr(<<EStr("files:delete")>>)]
TokUpload == WithClaims(UploadClaims)
TokDelete == WithClaims(DeleteClaims)
TokNoKid ==
    <<Header(TRUE, TRUE, Absent, Str("RS256")), Payload(TRUE, TRUE, UploadClaims),
      SignedBy("m1")>>
FailingTokens ==
    {WithClaims([UploadClaims EXCEPT !.iss = Str("other")]),
     WithClaims([UploadClaims EXCEPT !.aud = Str("other")]),
     WithClaims([UploadClaims EXCEPT !.sub = Absent]),
     WithClaims([UploadClaims EXCEPT !.exp = Num(0)]),
     <<RS256Header("k1"), Payload(TRUE, TRUE, UploadClaims), SignedBy("m2")>>}
GateRequests ==
    {NoHeader}
    \cup {AuthHeader(sch, TokUpload) : sch \in OtherSchemes}
    \cup {Bearer(t) : t \in {NoToken, TokMalformed, TokNoKid, TokUpload, TokDelete}}
    \cup {Bearer(t) : t \in FailingTokens}

InitGate == StartWith({NoToken}, Routers)

NextGate ==
    \/ Tick
    \/ Request(1, GateRequests)
    \/ FastPath(1)
    \/ LockAnnounce(1)
    \/ LockAcquire(1)
    \/ SlowCheck(1)
    \/ FetchDone(1)
    \/ Proceed(1)

SpecGate == InitGate /\ [][NextGate]_vars

(***************************************************************************)
(* SpecShare: concurrent requests behind the gated router, carrying the    *)
(* tokens of two different users; the clock stands still.                  *)
(***************************************************************************)
ShareRequests == {Bearer(TokUpload), Bearer(TokDelete)}

NextShare ==
    \E p \in Callers :
        \/ Request(p, ShareRequests)
        \/ FastPath(p)
        \/ LockAnnounce(p)
        \/ LockAcquire(p)
        \/ SlowCheck(p)
        \/ FetchDone(p)
        \/ Proceed(p)

SpecShare == Init /\ [][NextShare]_vars

(***************************************************************************)
(* SpecPerm: the handler of RequirePermissions run as the first handler of *)
(* a chain, for any list of required permissions, on a request whose       *)
(* "auth" key is missing, holds a value of another type, or holds an       *)
(* AuthContext with any list of permissions.                               *)
(***************************************************************************)
RequiredLists ==
    {<<>>, <<"a">>, <<"a", "b">>, <<"a", "a">>, <<"files:upload">>, <<"files:delete">>}
PermissionLists ==
    {<<>>, <<"a">>, <<"b", "a">>, <<"a", "b", "c">>, <<"A">>, <<"files:upload">>,
     <<"files:delete">>, <<"files:upload", "files:delete">>}
AuthValues ==
    {NoAuth, Foreign}
    \cup {Attached(AuthContext("u1", Absent, <<>>, perms, Absent, Absent)) :
             perms \in PermissionLists}

InitPerm ==
    /\ routed = "gated"
    /\ required \in RequiredLists
    /\ stage = [p \in Callers |-> IF p = 1 THEN "perm" ELSE "none"]
    /\ header = [p \in Callers |-> NoHeader]
    /\ \E a \in AuthValues : authKeys = [p \in Callers |-> IF p = 1 THEN a ELSE NoAuth]
    /\ done = NoReply
    /\ now = 0
    /\ urlValid = TRUE
    /\ cache = NoCache
    /\ muReaders = {}
    /\ muPending = NoCaller
    /\ muWriter = NoCaller
    /\ pc = [p \in Callers |-> "idle"]
    /\ tok = [p \in Callers |-> NoToken]
    /\ input = NoToken
    /\ inWindow = [p \in Callers |-> FALSE]
    /\ windowFetches = 0
    /\ refreshed = [p \in Callers |-> FALSE]
    /\ written = NoWrite
    /\ last = NoCall

NextPerm == PermissionOnly(1)

SpecPerm == InitPerm /\ [][NextPerm]_vars

(***************************************************************************)
(* Properties of the key-set cache, checked under Spec.                    *)
(***************************************************************************)
\* Caller p takes the step that decides between cache and fetch.
Checks(p) == pc[p] \in {"rlocked", "wcheck"} /\ pc'[p] # pc[p]

\* The call of caller p returns.
Returns(p) == pc[p] \in {"rlocked", "wcheck", "fetching"} /\ pc'[p] = "idle"

\* C1: whenever the cache holds a key set and the time is strictly before its
\* expiry, a GetKeySet call that checks the cache returns that key set, issues
\* no HTTP request and leaves the cache as it is.
C1_FreshCacheServed ==
    [][\A p \in Callers :
          (Checks(p) /\ cache.present /\ now < cache.expiresAt)
             => /\ Returns(p)
                /\ last'.tok = tok[p]
                /\ last'.ret = Ret(cache.set, "")
                /\ last'.outcome = "none"
                /\ cache' = cache]_vars

\* A call was served from the fresh cache without a fetch.
C1_Witness ==
    /\ cache.present /\ now < cache.expiresAt
    /\ last.outcome = "none"
    /\ last.ret = Ret(cache.set, "")

\* C2: once a key set has been stored, a GetKeySet call whose fetch fails
\* (transport error, non-200 status, unparseable body) returns the last
\* stored key set and no error.
C2_StaleFallback ==
    [][\A p \in Callers :
          (Returns(p) /\ last'.outcome \in FetchFailures /\ written.at >= 0)
             => last'.ret = Ret(written.set, "")]_vars

\* A fetch failed after a store and the call returned the stored key set.
C2_Witness ==
    /\ last.outcome = "status"
    /\ written.at >= 0 /\ now >= written.at + TTL
    /\ last.ret = Ret(written.set, "")

\* GetKeySet was called in call c and returned an error.
GetKeySetFailed(c) == c.ret.err \notin {"", "none"}

\* C3: GetKeySet returns an error only if no key set has ever been stored; a
\* 500 answer with no prior cache makes GetKeySet fail; and whenever GetKeySet
\* fails, VerifyToken fails with the key-set retrieval error without
\* attempting to verify the signature.
C3_ErrorOnlyWithoutCache ==
    [][\A p \in Callers :
          Returns(p) =>
             /\ GetKeySetFailed(last') => (written.at < 0 /\ ~cache.present)
             /\ (last'.outcome = "status" /\ ~cache.present)
                   => last'.ret = Ret(NilSet, "JWKS endpoint returned status")
             /\ GetKeySetFailed(last')
                   => /\ last'.res.err = "failed to get JWKS"
                      /\ last'.res.cause = last'.ret.err
                      /\ last'.res.sigKeys = <<>>
                      /\ \A i \in 1..Len(last'.res.log) :
                            last'.res.log[i] \notin {"lookup", "parse", "sigverify"}]_vars

\* The endpoint answered 500 with nothing cached: VerifyToken failed with the
\* key-set retrieval error.
C3_Witness ==
    /\ last.outcome = "status"
    /\ last.ret = Ret(NilSet, "JWKS endpoint returned status")
    /\ last.res.err = "failed to get JWKS"
    /\ ~cache.present
\* C4 as stated, for the calls that begin within the first TTL ticks (any two
\* of them begin less than TTL apart): together they issue at most one HTTP
\* request.
C4_AtMostOneFetchPerWindow == windowFetches <= 1

\* C4 amended: after a call has stored a fetched key set at time s, no call
\* that checks the cache at a time t with s <= t < s + TTL issues an HTTP
\* request; a failed fetch stores nothing and does not open such a window.
C4_NoFetchWithinTTLOfStore ==
    [][\A q \in Callers :
          (pc[q] = "wcheck" /\ pc'[q] = "fetching")
             => (written.at < 0 \/ now >= written.at + TTL)]_vars

\* Within the first TTL window one fetch succeeded and a later call was
\* served its key set without a second fetch.
C4_Witness ==
    /\ now < TTL
    /\ windowFetches = 1
    /\ written.at >= 0
    /\ last.outcome = "none"
    /\ last.ret = Ret(written.set, "")

\* A caller holds the lock exclusively: it is in the section from the second
\* freshness check to the store.
InSection(p) == pc[p] \in {"wcheck", "fetching"}

\* The time is strictly before the expiry of a key set the cache holds.
CacheFresh == cache.present /\ now < cache.expiresAt

\* C5 as stated: a caller that found the cache expired and acquires exclusive
\* access after another caller's successful refresh issues no fetch of its own.
C5_WaiterNeverFetches == \A q \in Callers : refreshed[q] => pc[q] # "fetching"

\* C5 amended: refreshes are mutually exclusive, a fetch is issued only from
\* the re-check under the exclusive lock and only when that re-check finds the
\* cache not fresh, a caller that acquires exclusive access after another
\* caller's successful refresh and finds the refreshed key set still fresh
\* returns it without a fetch, and the cache always holds the (key set,
\* expiry) pair of one store.
C5_State ==
    /\ Cardinality({p \in Callers : InSection(p)}) <= 1
    /\ \A p \in Callers : InSection(p) => (muWriter = p /\ muReaders = {})
    /\ IF cache.present
       THEN /\ written.set \in KeySetDocs
            /\ cache = Cached(written.set, written.at + TTL)
       ELSE written = NoWrite

C5_Step ==
    /\ \A q \in Callers :
          (pc'[q] = "fetching" /\ pc[q] # "fetching") => (pc[q] = "wcheck" /\ ~CacheFresh)
    /\ \A q \in Callers :
          (refreshed[q] /\ pc[q] = "wcheck" /\ pc'[q] # "wcheck" /\ CacheFresh)
             => /\ pc'[q] = "idle"
                /\ last'.ret = Ret(written.set, "")
                /\ last'.outcome = "none"
                /\ cache' = cache
    /\ cache' # cache => \E p \in Callers : muWriter = p /\ pc[p] = "fetching"

C5_ExclusiveRefresh == [](C5_State) /\ [][C5_Step]_vars

\* A caller that waited through another caller's refresh returned the
\* refreshed key set without fetching.
C5_Witness ==
    /\ last.waited
    /\ last.outcome = "none"
    /\ CacheFresh
    /\ last.ret = Ret(written.set, "")

\* A caller is waiting to acquire the lock: for shared access behind a
\* writer, or for exclusive access behind the readers or another writer.
Waiting(p) ==
    \/ pc[p] = "rwait"
    \/ pc[p] = "wpend" /\ muReaders # {}
    \/ pc[p] = "wlock" /\ muPending # NoCaller

\* C6 as stated: in no reachable state is a caller waiting to acquire the
\* lock while the cache is fresh.
C6_NoWaitingWhileFresh == \A p \in Callers : Waiting(p) => ~CacheFresh

\* C6 amended: readers of the cache never block one another.  A caller waits
\* for shared access only while another caller has requested or holds
\* exclusive access; exclusive access is requested only by a caller whose
\* freshness check under the shared lock found the cache not fresh; and a
\* fresh cache is returned on the read path with no exclusive lock held.
C6_State ==
    \A p \in Callers :
        /\ pc[p] = "rwait" => muPending \notin {NoCaller, p}
        /\ pc[p] = "rlocked" => (p \in muReaders /\ muWriter = NoCaller)

C6_Step ==
    \A p \in Callers :
        /\ (pc[p] = "idle" /\ pc'[p] = "rwait") => muPending # NoCaller
        /\ (pc[p] = "idle" /\ pc'[p] \notin {"idle", "rwait"})
              => (pc'[p] = "rlocked" /\ muPending = NoCaller)
        /\ (pc'[p] = "wlock" /\ pc[p] # "wlock") => (pc[p] = "rlocked" /\ ~CacheFresh)
        /\ (pc[p] = "rlocked" /\ pc'[p] = "idle") => (muWriter = NoCaller /\ CacheFresh)

C6_ReadersNotBlockedByReaders == [](C6_State) /\ [][C6_Step]_vars

\* Two callers hold the shared lock at once over a fresh cache.
C6_Witness ==
    \E p, q \in Callers :
        /\ p # q
        /\ pc[p] = "rlocked" /\ pc[q] = "rlocked"
        /\ CacheFresh

(***************************************************************************)
(* Properties of VerifyToken, checked under SpecVerify on the call that    *)
(* returned last.                                                          *)
(***************************************************************************)
\* The last call went through GetKeySet, which returned a key set.
GotKeySet == last.tok # NoToken /\ HeaderCheck(last.tok) = "" /\ last.ret.err = ""

\* Step s of VerifyToken took place in the last call, and every occurrence of
\* it came after an occurrence of step b.
Took(s) == \E i \in DOMAIN last.res.log : last.res.log[i] = s
OnlyAfter(s, b) ==
    \A i \in DOMAIN last.res.log :
        last.res.log[i] = s => \E j \in 1..(i - 1) : last.res.log[j] = b

\* The key set GetKeySet returned holds a key with the kid of the token, and
\* k is the first such key.
KidSelects(k) ==
    LET keys == last.ret.set.keys
        kid == last.tok[1].kid
    IN  \E i \in DOMAIN keys :
            /\ kid.t = "str" /\ keys[i].kid = kid.s
            /\ \A j \in 1..(i - 1) : keys[j].kid # kid.s
            /\ k = keys[i]

\* The signature of the token is an intact signature, by the method its
\* header names, made with the private half of the RSA key k.
SignedWith(k) ==
    LET sg == last.tok[3].sig
    IN  /\ k.kty = "RSA"
        /\ last.tok[1].alg.t = "str" /\ sg.alg = last.tok[1].alg.s
        /\ sg.mat = k.mat
        /\ sg.intact

\* The last call verified the signature of its token: with an RSA method,
\* against exactly the key kid selects, and the signature is good.
SignatureVerified ==
    /\ GotKeySet
    /\ Took("sigverify")
    /\ Len(last.res.sigKeys) = 1
    /\ KidSelects(last.res.sigKeys[1])
    /\ SignedWith(last.res.sigKeys[1])
    /\ last.tok[1].alg.s \in {"RS256", "RS384", "RS512"}

ClaimReads == {"iss", "aud", "sub", "extract"}

\* C7: VerifyToken returns an AuthContext only if the signature was verified
\* with an RSA-family method against the key the header's kid selects in the
\* key set; iss, aud, sub and the custom claims are read only after that
\* verification has succeeded.
C7_ContextOnlyAfterSignature ==
    /\ (last.res.err = "" \/ last.res.ctx # NoCtx) => SignatureVerified
    /\ \A s \in ClaimReads :
          Took(s) => (SignatureVerified /\ OnlyAfter(s, "sigverify"))

\* A token signed for the first of the two keys k2 of KS2 was verified and an
\* AuthContext returned.
C7_Witness ==
    /\ last.res.err = ""
    /\ last.res.ctx.UserID = "u1"
    /\ last.ret.set = KS2
    /\ last.res.sigKeys = <<Key("k2", "RSA", "m2")>>
    /\ Took("extract")

\* aud is the configured audience string, or an array that contains it.
AudienceListed(aud) ==
    \/ aud.t = "str" /\ aud.s = Audience
    \/ aud.t = "arr" /\ \E i \in DOMAIN aud.a : aud.a[i] = EStr(Audience)

\* C8: for a correctly signed token that reached the audience check, the check
\* passes if and only if aud is the configured audience string or an array
\* containing it; for any other aud VerifyToken fails with "invalid audience".
C8_AudienceIff ==
    (SignatureVerified /\ Took("aud"))
       => (AudienceListed(last.tok[2].claims.aud) <=> last.res.err # "invalid audience")

\* The time claims of the token pass the validation of jwt.Parse at time t.
TimeClaimsValid(claims, t) ==
    /\ claims.exp.t = "absent" \/ (claims.exp.t = "num" /\ t < claims.exp.n)
    /\ claims.nbf.t = "absent" \/ (claims.nbf.t = "num" /\ t >= claims.nbf.n)

\* iss is absent, not a string, or not the configured issuer.
IssuerWrong(iss) == iss.t # "str" \/ iss.s # Issuer

\* C9 as stated: every correctly signed token with a wrong iss fails with
\* "invalid issuer" and yields no AuthContext.
C9_IssuerError ==
    (SignatureVerified /\ IssuerWrong(last.tok[2].claims.iss))
       => (last.res.err = "invalid issuer" /\ last.res.ctx = NoCtx)

\* C9 amended: every correctly signed token with a wrong iss yields an error
\* and no AuthContext; the error is "invalid issuer" when the token's exp and
\* nbf pass jwt.Parse's validation, which runs first, and "token verification
\* failed" otherwise.
C9_IssuerErrorAfterTimeClaims ==
    (SignatureVerified /\ IssuerWrong(last.tok[2].claims.iss))
       => /\ last.res.ctx = NoCtx
          /\ last.res.err =
                IF TimeClaimsValid(last.tok[2].claims, now)
                THEN "invalid issuer" ELSE "token verification failed"

\* A correctly signed token without iss was refused with "invalid issuer".
C9_Witness ==
    /\ SignatureVerified
    /\ last.tok[2].claims.iss = Absent
    /\ last.res.err = "invalid issuer"

\* C10: a well-formed token whose kid is not in the key set GetKeySet returned
\* fails with "key not found for kid", and no signature verification is
\* attempted with any key.
C10_UnknownKidNoFallback ==
    (GotKeySet /\ ~\E i \in DOMAIN last.ret.set.keys :
                     last.ret.set.keys[i].kid = last.tok[1].kid.s)
       => /\ last.res.err = "key not found for kid"
          /\ last.res.ctx = NoCtx
          /\ last.res.sigKeys = <<>>
          /\ ~Took("parse") /\ ~Took("keyfunc") /\ ~Took("sigverify")

\* A token naming k1 and signed by k1's key was refused against KS2, which has
\* other RSA keys but no k1.
C10_Witness ==
    /\ GotKeySet
    /\ last.ret.set = KS2
    /\ last.tok[1].kid = Str("k1")
    /\ last.tok[3].sig = SignedBy("m1").sig
    /\ last.res.err = "key not found for kid"

\* C11: a token whose exp is in the past, or whose nbf is in the future, yields
\* an error and no AuthContext; when its signature verifies, the error is the
\* one of jwt.Parse, matching "token is expired" and "token is not valid yet"
\* respectively, returned before iss, aud or sub are read.
C11_TimeClaimsRejected ==
    LET claims == last.tok[2].claims
        expired == claims.exp.t = "num" /\ claims.exp.n < now
        early == claims.nbf.t = "num" /\ claims.nbf.n > now
    IN  (GotKeySet /\ (expired \/ early))
           => /\ last.res.err # "" /\ last.res.ctx = NoCtx
              /\ SignatureVerified
                    => /\ last.res.err = "token verification failed"
                       /\ expired => ErrorIs(last.res.cause, "token is expired")
                       /\ early => ErrorIs(last.res.cause, "token is not valid yet")
                       /\ \A s \in ClaimReads : ~Took(s)

\* A correctly signed token with all other claims good, expired and not yet
\* valid at once, was refused for both reasons.
C11_Witness ==
    /\ SignatureVerified
    /\ last.tok[2].claims.exp = Num(0 - 1)
    /\ last.tok[2].claims.nbf = Num(1)
    /\ last.tok[2].claims.iss = Str(Issuer)
    /\ last.res.err = "token verification failed"
    /\ last.res.cause = "token is expired, token is not valid yet"

\* C12: an AuthContext returned by VerifyToken has a non-empty UserID equal to
\* the token's sub claim; a token whose sub is absent, not a string or empty
\* yields an error and no AuthContext, the error being "token missing sub
\* claim" whenever the subject check is reached.
C12_SubjectIsUserID ==
    LET sub == last.tok[2].claims.sub
    IN  /\ (last.res.err = "" \/ last.res.ctx # NoCtx)
              => /\ sub.t = "str" /\ sub.s # ""
                 /\ last.res.ctx.UserID = sub.s
        /\ (GotKeySet /\ (sub.t # "str" \/ sub.s = ""))
              => /\ last.res.err # "" /\ last.res.ctx = NoCtx
                 /\ Took("sub") => last.res.err = "token missing sub claim"

\* A correctly signed token with good iss and aud and an empty sub was refused
\* for its subject.
C12_Witness ==
    /\ SignatureVerified
    /\ last.tok[2].claims.sub = Str("")
    /\ last.res.err = "token missing sub claim"
    /\ last.res.ctx = NoCtx

(***************************************************************************)
(* Properties of the HTTP layer.                                           *)
(***************************************************************************)
\* The header is present and begins with the literal "Bearer ".
IsBearer(h) == h # NoHeader /\ h.scheme = "Bearer "

\* Handler n ran in the request that finished last.
Ran(r, n) == \E i \in DOMAIN r.ran : r.ran[i] = n

\* C13, for each request p behind the gated router: AuthMiddleware calls
\* c.Next() only when the header is a Bearer header and VerifyToken succeeded
\* on the rest of it, with the AuthContext of that result attached and no
\* response written; whenever VerifyToken succeeds it does so; and when
\* VerifyToken fails it answers 401, attaches nothing and stops the chain.
C13_Gate(p) ==
    /\ (stage[p] = "none" /\ stage'[p] = "next")
          => /\ IsBearer(header[p])
             /\ tok[p] = header[p].tok
             /\ last'.tok = header[p].tok /\ last'.res.err = ""
             /\ authKeys'[p] = Attached(last'.res.ctx)
             /\ done' = done
    /\ (Returns(p) /\ last'.res.err = "") => stage'[p] = "next"
    /\ (Returns(p) /\ last'.res.err # "")
          => /\ stage'[p] = "none" /\ authKeys'[p] = NoAuth
             /\ done'.req = header[p]
             /\ done'.ran = <<"auth">> /\ done'.status = 401

\* C13, for the request that finishes: one that ends in AuthMiddleware was
\* answered 401 with nothing attached and nothing saved, because its header
\* was refused (and then VerifyToken was not called) or VerifyToken failed on
\* its token; one that ends further down the chain had passed the gate, and
\* the handlers read the AuthContext attached by it.
C13_Finished ==
    (done' # done /\ routed = "gated")
       => IF done'.ran = <<"auth">>
          THEN /\ done'.status = 401 /\ done'.auth = NoAuth /\ ~done'.saved
               /\ IF IsBearer(done'.req)
                  THEN /\ last'.tok = done'.req.tok /\ last'.res.err # ""
                       /\ done'.body = Body("Invalid token", <<last'.res.err, last'.res.cause>>,
                                            <<>>, <<>>)
                  ELSE /\ last' = last /\ pc' = pc /\ cache' = cache
                       /\ done'.body = Message("Missing or invalid authorization header")
          ELSE \E p \in Callers :
                  /\ stage[p] = "next" /\ stage'[p] = "none"
                  /\ done'.req = header[p] /\ IsBearer(header[p])
                  /\ done'.auth = authKeys[p] /\ authKeys[p].isCtx

C13_GateIff == [][C13_Finished /\ \A p \in Callers : routed = "gated" => C13_Gate(p)]_vars

\* Behind the gated router an upload by user u1 went through the gate, the
\* permission check and the handler.
C13_Witness ==
    /\ routed = "gated"
    /\ done.ran = <<"auth", "perm", "upload">>
    /\ done.status = 200 /\ done.saved
    /\ done.auth.ctx.UserID = "u1"

\* The strings of a list.
Elements(s) == {s[i] : i \in DOMAIN s}

\* C14, for a request p whose "auth" value is an AuthContext with permission
\* list P when RequirePermissions(R) runs: the next handler runs if and only
\* if every string of R is, exactly, one of the strings of P; otherwise the
\* response is 403 with required = R and has = P, and no later handler runs.
C14_Check(p) ==
    (stage[p] # "none" /\ stage'[p] = "none" /\ authKeys[p].isCtx)
       => LET R == required
              P == authKeys[p].ctx.Permissions
          IN  IF Elements(R) \subseteq Elements(P)
              THEN Ran(done', "upload")
              ELSE /\ ~Ran(done', "upload") /\ ~done'.saved
                   /\ done'.ran[Len(done'.ran)] = "perm"
                   /\ done'.status = 403
                   /\ done'.body.required = R /\ done'.body.has = P

C14_PermissionIff == [][\A p \in Callers : C14_Check(p)]_vars

\* A request holding one of the two required permissions was refused.
C14_Witness ==
    /\ required = <<"a", "b">>
    /\ done.auth.isCtx /\ done.auth.ctx.Permissions = <<"a">>
    /\ done.ran = <<"perm">> /\ done.status = 403
    /\ done.body.required = <<"a", "b">> /\ done.body.has = <<"a">>

\* C15: storage.Save is called for a request to POST /files only after
\* AuthMiddleware and RequirePermissions("files:upload") both let that request
\* through: the request that saved ran the three handlers in order and carried
\* an AuthContext holding "files:upload".
C15_SaveOnlyBehindGates ==
    done.saved
       => /\ done.ran = <<"auth", "perm", "upload">>
          /\ done.auth.isCtx
          /\ "files:upload" \in Elements(done.auth.ctx.Permissions)

\* The request that finished was answered 401 "Invalid token": its token
\* failed VerifyToken.
FailedVerification(r) ==
    r.ran = <<"auth">> /\ r.status = 401 /\ r.body.error = "Invalid token"

\* C16: any two requests whose tokens fail VerifyToken receive the same
\* response, whatever the causes of the two failures.
C16_SameResponse ==
    [][(FailedVerification(done) /\ FailedVerification(done'))
          => (done'.status = done.status /\ done'.body = done.body)]_vars

\* C17: RequirePermissions on a request whose "auth" value is missing or is
\* not an AuthContext runs no later handler and answers with a server fault
\* (5xx), not with a client error (4xx).
C17_InternalFault ==
    (Ran(done, "perm") /\ ~done.auth.isCtx)
       => /\ ~Ran(done, "upload") /\ ~done.saved
          /\ done.status >= 500

\* The AuthContext VerifyToken builds from the claims of the token of header h.
ContextOf(h) == ExtractContext(h.tok[2].claims)

\* C18, under every interleaving of concurrent requests: the value under
\* "auth" that the permission check and the handler of a request read is the
\* AuthContext built from that request's own token, a request that has not
\* passed the gate has no value under "auth", and the request that finished
\* behind the gate was judged on the AuthContext of its own token.
C18_OwnContext ==
    /\ \A p \in Callers :
          /\ stage[p] = "next" => authKeys[p] = Attached(ContextOf(header[p]))
          /\ stage[p] = "none" => authKeys[p] = NoAuth
    /\ Ran(done, "perm") => done.auth = Attached(ContextOf(done.req))

\* Two requests of different users are past the gate at the same time.
C18_Witness ==
    /\ stage[1] = "next" /\ stage[2] = "next"
    /\ authKeys[1].ctx.UserID = "u1" /\ authKeys[2].ctx.UserID = "u2"
    /\ authKeys[1].ctx.Permissions # authKeys[2].ctx.Permissions

\* C19: a GetKeySet call whose fetch fails (transport error, non-200 status,
\* unparsable body) or is abandoned because the caller's context is cancelled
\* or times out returns leaving the stored key set and its expiry exactly as
\* they were before the call; the same holds for a call that cannot build its
\* request.
C19_FailureKeepsCache ==
    [][\A p \in Callers :
          (Returns(p) /\ (\/ last'.outcome \in FetchFailures
                          \/ last'.ret.err = "failed to create request"))
             => (cache' = cache /\ written' = written)]_vars

\* A fetch was abandoned while a stale entry was stored, and the entry is
\* still the one the last refresh wrote, with the expiry it was given then.
C19_Witness ==
    /\ last.outcome = "canceled"
    /\ cache.present /\ now >= cache.expiresAt
    /\ cache = NewEntry(written.set, written.at)

\* The token has three segments, a first segment that decodes to a JSON
\* object, and a string kid in it.
StructurallySound(t) ==
    Len(t) = 3 /\ t[1].b64 /\ t[1].json /\ t[1].kid.t = "str"

\* Nothing of the JWKSClient changes in the step: no caller enters or moves
\* within GetKeySet, the lock and the cache stay as they are and no request is
\* sent.
KeySetUntouched ==
    /\ pc' = pc /\ cache' = cache /\ written' = written
    /\ muReaders' = muReaders /\ muPending' = muPending /\ muWriter' = muWriter
    /\ windowFetches' = windowFetches

\* C20: a caller is inside GetKeySet only for a Bearer header whose token
\* passed the structural check and carries a string kid; a request with a
\* missing or non-Bearer header never calls VerifyToken, and one whose token is
\* malformed or has no kid ends in VerifyToken before the key-set step; neither
\* causes a cache lookup or a fetch.
C20_LookupOnlyAfterKid ==
    [][/\ \A p \in Callers :
             pc'[p] # "idle"
                => /\ IsBearer(header'[p]) /\ tok'[p] = header'[p].tok
                   /\ StructurallySound(tok'[p])
       /\ (done' # done /\ routed = "gated" /\ ~IsBearer(done'.req))
             => (KeySetUntouched /\ last' = last)
       /\ (done' # done /\ routed = "gated" /\ IsBearer(done'.req)
             /\ ~StructurallySound(done'.req.tok))
             => /\ KeySetUntouched
                /\ last'.tok = done'.req.tok
                /\ \A i \in DOMAIN last'.res.log : last'.res.log[i] # "getkeyset"]_vars

\* A token without kid was refused and no key set was ever looked up or
\* fetched.
C20_Witness ==
    /\ done.req = Bearer(TokNoKid) /\ done.status = 401
    /\ last.tok = TokNoKid /\ last.res.err = "token missing kid in header"
    /\ ~cache.present /\ written = NoWrite /\ windowFetches = 0
    /\ \A p \in Callers : pc[p] = "idle"

(***************************************************************************)
(* Termination of GetKeySet.  The callers each keep sending requests with  *)
(* a well-formed token, so that every one of them enters GetKeySet; its    *)
(* kid is in no key set, so that each request ends in AuthMiddleware.  The *)
(* scheduler runs every goroutine that can take a step (weak fairness of   *)
(* each step of each caller), every fetch ends (the http.Client has a      *)
(* timeout), and sync.RWMutex serves the callers of Lock through a         *)
(* sync.Mutex whose starvation mode hands the lock to the longest waiter:  *)
(* a caller that can again and again become the pending writer eventually  *)
(* does (strong fairness of LockAnnounce).                                 *)
(***************************************************************************)
TokUnknownKid == <<RS256Header("k0"), Payload(TRUE, TRUE, GoodClaims), SignedBy("m1")>>
LiveRequests == {Bearer(TokUnknownKid)}

NextLive ==
    \/ Tick
    \/ \E p \in Callers :
          \/ Request(p, LiveRequests)
          \/ FastPath(p)
          \/ LockAnnounce(p)
          \/ LockAcquire(p)
          \/ SlowCheck(p)
          \/ FetchDone(p)

Fairness ==
    \A p \in Callers :
       /\ WF_vars(FastPath(p))
       /\ SF_vars(LockAnnounce(p))
       /\ WF_vars(LockAcquire(p))
       /\ WF_vars(SlowCheck(p))
       /\ WF_vars(FetchDone(p))

SpecLive == Init /\ [][NextLive]_vars /\ Fairness

\* Caller p holds or has asked for no part of c.mu.
HoldsNothing(p) == p \notin muReaders /\ muWriter # p /\ muPending # p

\* C21: a caller that is not inside GetKeySet holds no lock, shared or
\* exclusive, whatever path its last call returned on; and with every fetch
\* ending and fair scheduling, every caller inside GetKeySet eventually
\* returns, however many callers run concurrently: at every moment each
\* caller is outside GetKeySet or will be.
C21_ReleasesAndReturns ==
    /\ [](\A p \in Callers : pc[p] = "idle" => HoldsNothing(p))
    /\ \A p \in Callers : []<>(pc[p] = "idle")

\* A call returned the stale key set after a failed fetch and left the lock
\* free, and a caller that had queued for the shared lock behind it now holds
\* it together with another reader.
C21_Witness ==
    /\ last.outcome \in FetchFailures /\ last.ret.err = "" /\ cache.present
    /\ muWriter = NoCaller /\ muPending = NoCaller
    /\ \A p \in Callers : pc[p] = "idle" => HoldsNothing(p)
    /\ \E p \in Callers : pc[p] = "rlocked" /\ p \in muReaders

====
